---- MODULE Spec2Model ----
(***************************************************************************)
(* Adaptive provider scheduling of claude-code-hub:                        *)
(*   - BackgroundScheduler   (lib/scheduler/background-scheduler)          *)
(*   - RealtimeDecisionEngine (lib/scheduler/realtime-decision-engine)     *)
(*   - MABScheduler          (lib/scheduler/mab-algorithm.ts)              *)
(*   - AutoScheduler         (lib/scheduler/auto-scheduler.ts)             *)
(* Dates are kept relative: nextExecutionTime holds the offset (seconds)   *)
(* that was added to Date.now(); lastExecutionTime is 0 (null) or 1 (set). *)
(***************************************************************************)
EXTENDS Integers, Sequences, FiniteSets, TLC

\* ---------------------------------------------------------------- bounds
MaxStarts == 2
MaxTimers == 2
MaxExec == 1
NumProviders == 2
MaxCycles == 2
MaxTime == 5

StartIds == 1..MaxStarts
TimerIds == 1..MaxTimers
ProviderIds == 1..NumProviders

\* null for intervalId, nextExecutionTime and lastExecutionTime
Null == -1

\* values of scheduleIntervalSeconds kept in the configuration store
Intervals == {30, 60}

VARIABLES
    state,      \* BackgroundScheduler.state
    starts,     \* start() invocations: position of each in the async body
    timers,     \* setTimeout tasks: pending, or position inside the callback
    settings,   \* system_settings row read by getSystemSettings()
    lastOp,     \* history: "start" right after a start() call, else "other"
    stopCtx,    \* history: what the last stop() found, until start() is called
    providers,  \* the providers table: weight, priority, baseline, is_enabled
    lastCycle,  \* history: the last on-demand engine cycle (engine, dryRun, outcome)
    cycles,     \* number of on-demand engine cycles so far
    probe,      \* the last call of a pure function: its arguments and its result
    health,     \* the circuit breaker's health record of one provider
    now         \* the clock the circuit breaker reads (Date.now())

schedVars == <<state, starts, timers, lastOp, stopCtx>>
auxVars == <<probe, health, now>>
vars == <<state, starts, timers, settings, lastOp, stopCtx, providers, lastCycle, cycles,
          probe, health, now>>

\* ------------------------------------------------ BackgroundScheduler

\* SchedulerState as constructed
InitialState ==
    [isRunning |-> FALSE, intervalId |-> Null, lastExecutionTime |-> Null,
     nextExecutionTime |-> Null, totalExecutions |-> 0, lastError |-> "null",
     config |-> [intervalSeconds |-> 30, explorationRate |-> 15, enabled |-> FALSE]]

IdleStart == [pc |-> "idle", intervalSeconds |-> Null, cfg |-> Null]
FreeTimer == [pc |-> "free", delay |-> Null, cfg |-> Null]

\* positions inside executeSchedule(): awaiting getSystemSettings() (line 587),
\* awaiting RealtimeDecisionEngine.execute() (line 604)
CyclePcs == {"cycleCfg", "cycleRun"}

\* number of executeSchedule() calls that have begun and not returned
InFlight(ss, tt) ==
    Cardinality({i \in StartIds : ss[i].pc \in CyclePcs})
    + Cardinality({t \in TimerIds : tt[t].pc \in CyclePcs})

HasFree(tt) == \E t \in TimerIds : tt[t].pc = "free"

FreeSlot(tt) ==
    CHOOSE t \in TimerIds :
        tt[t].pc = "free" /\ \A u \in TimerIds : tt[u].pc = "free" => t <= u

\* scheduleNext(intervalSeconds): the pair <<state, timers>> it leaves
ScheduleNext(st, tt, intervalSeconds) ==
    IF ~st.isRunning
    THEN <<st, tt>>
    ELSE LET t == FreeSlot(tt)
         IN  <<[st EXCEPT !.intervalId = t],
               [tt EXCEPT ![t] = [pc |-> "armed", delay |-> intervalSeconds,
                                  cfg |-> Null]]>>

\* stop(): the pair <<state, timers>> it leaves
Stop(st, tt) ==
    IF ~st.isRunning
    THEN <<st, tt>>
    ELSE LET cleared ==
                 IF st.intervalId # Null /\ tt[st.intervalId].pc = "armed"
                 THEN [tt EXCEPT ![st.intervalId] = FreeTimer]
                 ELSE tt
         IN  <<[st EXCEPT !.intervalId = Null, !.isRunning = FALSE,
                          !.nextExecutionTime = Null],
               cleared>>

\* a start() without the early return
NeverRunning(st) == FALSE

\* start(), lines 470-473: the early return
AlreadyRunning(st) == st.isRunning

\* a start() that takes its config snapshot but leaves the running flag for later
MarkRunningLate(st, s) ==
    [st EXCEPT !.config = [intervalSeconds |-> s.scheduleIntervalSeconds,
                           explorationRate |-> s.explorationRate,
                           enabled |-> TRUE],
               !.nextExecutionTime = s.scheduleIntervalSeconds]

\* start(), lines 487-500: config snapshot, then the running flag, before the
\* first cycle
MarkRunning(st, s) ==
    [st EXCEPT !.config = [intervalSeconds |-> s.scheduleIntervalSeconds,
                           explorationRate |-> s.explorationRate,
                           enabled |-> TRUE],
               !.isRunning = TRUE,
               !.nextExecutionTime = s.scheduleIntervalSeconds]

\* a start() that ignores the enable flag
StartDisabledNever(s) == FALSE

\* start(), lines 479-482: scheduling is disabled in the settings just read
StartDisabled(s) == ~s.enableRealtimeSchedule

\* a callback that re-arms with the interval start() recorded
StartInterval(st, s) == st.config.intervalSeconds

\* the setTimeout callback, lines 531-532: the interval of the settings just
\* read
ReloadInterval(st, s) == s.scheduleIntervalSeconds

\* ------------------------------------------------------ arithmetic helpers

Max(a, b) == IF a >= b THEN a ELSE b
Min(a, b) == IF a <= b THEN a ELSE b
Abs(a) == IF a >= 0 THEN a ELSE -a
Sign(a) == IF a > 0 THEN 1 ELSE IF a < 0 THEN -1 ELSE 0

\* Math.round(n / d) for n >= 0, d > 0: halves go up
RoundDiv(n, d) == (2 * n + d) \div (2 * d)

\* the pairs <<w, percent>> of 0..100 \X 1..100 whose double product
\* w * (percent / 100) lies just below the exact integer product
ShortProducts == {<<50, 58>>, <<90, 70>>, <<100, 29>>, <<100, 57>>, <<100, 58>>}

\* the floor of the exact product
FloorPercentExact(w, percent) == (w * percent) \div 100

\* Math.floor(w * (percent / 100)), for w in 0..100 and percent in 1..100, and
\* Math.floor(w * (percent / 200)), exact for w in 0..100 and percent in 1..50
FloorPercent(w, percent) ==
    IF <<w, percent>> \in ShortProducts THEN (w * percent) \div 100 - 1
    ELSE (w * percent) \div 100
FloorHalfPercent(w, percent) == (w * percent) \div 200

\* Math.floor(w * 0.7): the double 90 * 0.7 is 62.99999999999999
FloorTimes07(w) == IF w = 90 THEN 62 ELSE (7 * w) \div 10
\* a half that rounds up
CeilTimes05(w) == (w + 1) \div 2

\* Math.floor(w * 0.8), Math.floor(w * 1.2), Math.floor(w * 0.5)
FloorTimes08(w) == (8 * w) \div 10
FloorTimes12(w) == (12 * w) \div 10
FloorTimes05(w) == w \div 2

\* ------------------------------------------------------ PerformanceScorer

\* a score that takes 20 s, not 10 s, as the worst response time
CalculateScoreSlow(e, r, d) ==
    RoundDiv(300000 * (d - e) + 10 * (20000 * d - Min(r, 20000 * d)), 500 * d)

\* calculateScore for errorRate = e/d and avgResponseTime = r/d (one common
\* denominator d > 0), in tenths of a point (the result has one decimal):
\* round(10 * (successScore + speedScore)) with
\*   successScore = max(0, min(60, (1 - errorRate) * 60))
\*   speedScore   = max(0, min(40, (1 - min(avgResponseTime / 10000, 1)) * 40))
\* both kept as numerators over 25 * d
CalculateScore(e, r, d) ==
    LET successScore == Max(0, Min(15000 * d, 15000 * (d - e)))
        normalizedTime == Min(r, 10000 * d)
        speedScore == Max(0, Min(10000 * d, 10000 * d - normalizedTime))
    IN  RoundDiv(successScore + speedScore, 25 * d)

\* a confidence whose ramp climbs to 100 below the minimum size
CalculateConfidenceSteep(sampleSize, minSize) ==
    IF sampleSize >= minSize * 5 THEN 100
    ELSE IF sampleSize >= minSize * 2 THEN 80
    ELSE IF sampleSize >= minSize THEN 50
    ELSE IF sampleSize > 0 THEN RoundDiv(sampleSize * 100, minSize)
    ELSE 0

\* calculateConfidence(sampleSize, minSize)
CalculateConfidence(sampleSize, minSize) ==
    IF sampleSize >= minSize * 5 THEN 100
    ELSE IF sampleSize >= minSize * 2 THEN 80
    ELSE IF sampleSize >= minSize THEN 50
    ELSE IF sampleSize > 0 THEN RoundDiv(sampleSize * 50, minSize)
    ELSE 0

\* ------------------------------------------------------ WindowAggregator

\* one telemetry snapshot: request count, error count, AVG(duration_ms)::integer
Window(n, errors, avg) == [requests |-> n, errorCount |-> errors, avgResponseTime |-> avg]

\* getProviderMultiWindowAnalytics, lines 168-234: metrics.weighted of one row.
\* Each window's share requests/totalRequests times its decay (0.6, 0.3, 0.1),
\* renormalised by the sum: the common factor 1/(10 * totalRequests) cancels,
\* which leaves errorRate = e/d and avgResponseTime = r/d with the sums below.
\* A window without requests has error rate 0 and does not count.
\* a fusion that scores a row without traffic as a row of failures
WeightedMetricsWorst(short, medium, long) ==
    [requests |-> short.requests + medium.requests + long.requests,
     e |-> 1, r |-> 0, d |-> 1, performanceScore |-> CalculateScore(1, 0, 1)]

WeightedMetrics(short, medium, long) ==
    LET totalRequests == short.requests + medium.requests + long.requests
        d == 6 * short.requests + 3 * medium.requests + long.requests
        e == 6 * short.errorCount + 3 * medium.errorCount + long.errorCount
        r == 6 * short.avgResponseTime * short.requests
             + 3 * medium.avgResponseTime * medium.requests
             + long.avgResponseTime * long.requests
    IN  IF totalRequests = 0
        THEN [requests |-> 0, e |-> 0, r |-> 0, d |-> 1,
              performanceScore |-> CalculateScore(0, 0, 1)]
        ELSE [requests |-> totalRequests, e |-> e, r |-> r, d |-> d,
              performanceScore |-> CalculateScore(e, r, d)]

\* ------------------------------------------------------ MABScheduler

\* MABScheduler.calculateConfidence
MABConfidence(requests, minSampleSize) ==
    IF requests = 0 THEN 0
    ELSE IF requests >= minSampleSize * 2 THEN 100
    ELSE Min(100, (requests * 100) \div (minSampleSize * 2))

\* an open-circuit rule that stops at the weight floor of the other rules
OpenSuggestionFloored == [suggestedWeight |-> 1, suggestedPriority |-> 999]

\* the open-circuit rule of calculateAdjustment, lines 219-225
OpenSuggestion == [suggestedWeight |-> 0, suggestedPriority |-> 999]

\* a rate limit that lets no change through
LimitChangeFrozen(currentWeight, targetWeight, maxWeightAdjustmentPercent) == currentWeight

\* the rate limit of calculateAdjustment, lines 280-289
LimitChange(currentWeight, targetWeight, maxWeightAdjustmentPercent) ==
    LET maxChange == FloorPercent(currentWeight, maxWeightAdjustmentPercent)
        weightDelta == targetWeight - currentWeight
    IN  IF Abs(weightDelta) > maxChange
        THEN currentWeight + Sign(weightDelta) * maxChange
        ELSE targetWeight

\* MABScheduler.calculateAdjustment; scores are in tenths (850 is 85.0)
CalculateAdjustment(provider, baseWeight, basePriority, config) ==
    LET performanceScore == provider.metrics.performanceScore
        requests == provider.metrics.requests
        currentWeight == provider.weight
        maxAdj == config.maxWeightAdjustmentPercent
        target ==
            IF performanceScore >= 850
            THEN [w |-> Min(100, currentWeight + FloorPercent(baseWeight, maxAdj)),
                  p |-> Max(0, basePriority - 1)]
            ELSE IF performanceScore >= 700
            THEN [w |-> baseWeight, p |-> basePriority]
            ELSE IF performanceScore >= 500
            THEN [w |-> Max(1, currentWeight - FloorHalfPercent(baseWeight, maxAdj)),
                  p |-> basePriority + 1]
            ELSE [w |-> Max(1, currentWeight - FloorPercent(baseWeight, maxAdj)),
                  p |-> basePriority + 2]
        suggestedWeight == LimitChange(currentWeight, target.w, maxAdj)
    IN  IF provider.circuitState = "open"
        THEN OpenSuggestion
        ELSE IF provider.circuitState = "half-open"
        THEN [suggestedWeight |->
                  Max(1, FloorPercent(baseWeight, config.circuitRecoveryWeightPercent)),
              suggestedPriority |-> basePriority + 1]
        ELSE IF requests < config.minSampleSize
        THEN [suggestedWeight |-> Max(1, FloorTimes05(baseWeight)),
              suggestedPriority |-> basePriority]
        ELSE [suggestedWeight |-> Max(1, Min(100, suggestedWeight)),
              suggestedPriority |-> Max(0, target.p)]

\* provider.baseWeight ?? provider.weight
OrElse(nullable, fallback) == IF nullable = Null THEN fallback ELSE nullable

\* a generateDecisions that marks exploration the way selectProvider does, by
\* a draw against explorationRate (here the draw is 50)
MABDecisionGreedy(provider, config) ==
    LET baseWeight == OrElse(provider.baseWeight, provider.weight)
        basePriority == OrElse(provider.basePriority, provider.priority)
        adj == CalculateAdjustment(provider, baseWeight, basePriority, config)
    IN  [isExploration |-> 50 < config.explorationRate,
         currentWeight |-> provider.weight,
         currentPriority |-> provider.priority,
         suggestedWeight |-> adj.suggestedWeight,
         suggestedPriority |-> adj.suggestedPriority,
         metrics |-> provider.metrics,
         confidence |-> MABConfidence(provider.metrics.requests, config.minSampleSize)]

\* MABScheduler.generateDecisions, the decision of one provider. ucbValue is
\* computed and logged by the code but read by no rule, and is left out.
MABDecision(provider, config) ==
    LET baseWeight == OrElse(provider.baseWeight, provider.weight)
        basePriority == OrElse(provider.basePriority, provider.priority)
        adj == CalculateAdjustment(provider, baseWeight, basePriority, config)
    IN  [isExploration |-> provider.metrics.requests < config.minSampleSize,
         currentWeight |-> provider.weight,
         currentPriority |-> provider.priority,
         suggestedWeight |-> adj.suggestedWeight,
         suggestedPriority |-> adj.suggestedPriority,
         metrics |-> provider.metrics,
         confidence |-> MABConfidence(provider.metrics.requests, config.minSampleSize)]

\* ------------------------------------------------ RealtimeDecisionEngine

\* convertToScheduleDecisions: the action of one MAB decision
MABAction(mab) ==
    LET weightChange == mab.suggestedWeight - mab.currentWeight
    IN  IF mab.metrics.requests = 0 \/ mab.isExploration THEN "explore"
        ELSE IF weightChange > 0 THEN "promote"
        ELSE IF weightChange < 0 THEN "demote"
        ELSE IF mab.currentWeight < (IF mab.metrics.requests > 0 THEN mab.currentWeight ELSE 1)
        THEN "recover"
        ELSE "maintain"

\* convertToScheduleDecisions, lines 292-295: the baseline of a decision
RealtimeBaseline(mab) == [weight |-> mab.currentWeight, priority |-> mab.currentPriority]

\* convertToScheduleDecisions: one ScheduleDecision
ConvertToScheduleDecision(mab) ==
    [beforeState |-> [weight |-> mab.currentWeight, priority |-> mab.currentPriority,
                      performanceScore |-> mab.metrics.performanceScore,
                      circuitState |-> "closed"],
     afterState |-> [weight |-> mab.suggestedWeight, priority |-> mab.suggestedPriority,
                     performanceScore |-> mab.metrics.performanceScore],
     action |-> MABAction(mab),
     confidence |-> mab.confidence,
     baseline |-> RealtimeBaseline(mab)]

\* calculateSummary of both engines: the realtime one counts explore as maintained,
\* the rule engine never produces explore
CountAction(decisions, actions) ==
    Cardinality({id \in DOMAIN decisions : decisions[id].action \in actions})

\* a summary whose switch has no case for explore
CalculateSummaryStrict(decisions) ==
    [promoted |-> CountAction(decisions, {"promote"}),
     demoted |-> CountAction(decisions, {"demote"}),
     maintained |-> CountAction(decisions, {"maintain"}),
     recovered |-> CountAction(decisions, {"recover"}),
     circuitOpen |-> CountAction(decisions, {"circuit_penalty"})]

CalculateSummary(decisions) ==
    [promoted |-> CountAction(decisions, {"promote"}),
     demoted |-> CountAction(decisions, {"demote"}),
     maintained |-> CountAction(decisions, {"maintain", "explore"}),
     recovered |-> CountAction(decisions, {"recover"}),
     circuitOpen |-> CountAction(decisions, {"circuit_penalty"})]

EmptySummary ==
    [promoted |-> 0, demoted |-> 0, maintained |-> 0, recovered |-> 0, circuitOpen |-> 0]

\* the provider store's update: the columns present in data are written as given
\* (Null marks an absent key)
UpdateProvider(row, data) ==
    [row EXCEPT
        !.weight = data.weight,
        !.priority = data.priority,
        !.baseWeight = OrElse(data.base_weight, @),
        !.basePriority = OrElse(data.base_priority, @)]

\* an update object that always carries the before state as the baseline
UpdateDataRebased(decision) ==
    [weight |-> decision.afterState.weight,
     priority |-> decision.afterState.priority,
     base_weight |-> decision.beforeState.weight,
     base_priority |-> decision.beforeState.priority]

\* the object applyDecisions hands to updateProvider (both engines): weight and
\* priority, and the baseline columns when the decision's baseline equals the
\* before state
UpdateData(decision) ==
    [weight |-> decision.afterState.weight,
     priority |-> decision.afterState.priority,
     base_weight |-> IF decision.baseline.weight = decision.beforeState.weight
                     THEN decision.beforeState.weight ELSE Null,
     base_priority |-> IF decision.baseline.priority = decision.beforeState.priority
                       THEN decision.beforeState.priority ELSE Null]

ApplyUpdate(row, decision) == UpdateProvider(row, UpdateData(decision))

\* RealtimeDecisionEngine.applyDecisions: the decisions that change weight or priority
RealtimeUpdates(decisions) ==
    {id \in DOMAIN decisions :
        \/ decisions[id].afterState.weight # decisions[id].beforeState.weight
        \/ decisions[id].afterState.priority # decisions[id].beforeState.priority}

\* RealtimeDecisionEngine.applyDecisions: the store it leaves; an update that
\* throws (id \in failing) is logged and skipped
RealtimeApplyDecisions(store, decisions, failing) ==
    [id \in DOMAIN store |->
        IF id \in RealtimeUpdates(decisions) /\ id \notin failing
        THEN ApplyUpdate(store[id], decisions[id])
        ELSE store[id]]

\* the enabled providers: both analytics queries select is_enabled = true
EnabledIds(store) == {id \in DOMAIN store : store[id].isEnabled}

NoDecisions == [id \in {} |-> Null]

\* the result of a cycle that threw (the catch of execute, both engines)
FailedResult(store) ==
    [ok |-> FALSE, store |-> store, decisions |-> NoDecisions, summary |-> EmptySummary,
     totalProviders |-> 0, affectedProviders |-> 0, logged |-> 0]

\* one row of getProviderMultiWindowAnalytics
MultiWindowRow(row, telemetry, circuitState) ==
    [weight |-> row.weight, priority |-> row.priority,
     baseWeight |-> row.baseWeight, basePriority |-> row.basePriority,
     metrics |-> WeightedMetrics(telemetry.short, telemetry.medium, telemetry.long),
     circuitState |-> circuitState]

\* RealtimeDecisionEngine.execute, steps 3-4: the decisions of a cycle
RealtimeDecisions(store, tele, circ, config) ==
    [id \in EnabledIds(store) |->
        ConvertToScheduleDecision(MABDecision(MultiWindowRow(store[id], tele[id], circ[id]),
                                              config))]

\* an execute that applies its decisions whatever the mode
RealtimeCommitsAlways(dryRun) == TRUE

\* RealtimeDecisionEngine.execute, line 199: if (!dryRun)
RealtimeCommits(dryRun) == ~dryRun

\* RealtimeDecisionEngine.execute. fault.read: getSystemSettings or the analytics
\* query throws; fault.update: the providers whose updateProvider throws;
\* fault.log: createScheduleLog throws. The result carries the store it leaves
\* and the number of schedule-log rows it appended.
RealtimeExecute(store, tele, circ, config, dryRun, fault) ==
    LET decisions == RealtimeDecisions(store, tele, circ, config)
        summary == CalculateSummary(decisions)
    IN  IF fault.read
        THEN FailedResult(store)
        ELSE IF EnabledIds(store) = {}
        THEN [ok |-> TRUE, store |-> store, decisions |-> NoDecisions,
              summary |-> EmptySummary, totalProviders |-> 0,
              affectedProviders |-> 0, logged |-> 0]
        ELSE [ok |-> TRUE,
              store |-> IF RealtimeCommits(dryRun)
                        THEN RealtimeApplyDecisions(store, decisions, fault.update)
                        ELSE store,
              decisions |-> decisions,
              summary |-> summary,
              totalProviders |-> Cardinality(EnabledIds(store)),
              affectedProviders |-> summary.promoted + summary.demoted + summary.recovered,
              logged |-> IF fault.log THEN 0 ELSE 1]

\* ------------------------------------------------------ AutoScheduler

\* the score and confidence getProviderAnalytics attaches to today's snapshot
TodayScore(today) ==
    IF today.requests = 0
    THEN CalculateScore(0, today.avgResponseTime, 1)
    ELSE CalculateScore(today.errorCount, today.avgResponseTime * today.requests,
                        today.requests)

\* getProviderAnalytics, line 104-107: the minimum sample size is the literal 10
TodayConfidence(today) == CalculateConfidence(today.requests, 10)

\* AutoScheduler.applyStrategy, lines 209-229: the open-circuit penalty
CircuitPenalty(provider) ==
    [weight |-> Max(1, FloorTimes07(provider.weight)), priority |-> provider.priority + 2]

\* AutoScheduler.applyStrategy: one ScheduleDecision; scores are in tenths
ApplyStrategy(provider, score, confidence, circuitState) ==
    LET baseWeight == OrElse(provider.baseWeight, provider.weight)
        basePriority == OrElse(provider.basePriority, provider.priority)
        beforeState == [weight |-> provider.weight, priority |-> provider.priority,
                        performanceScore |-> score, circuitState |-> circuitState]
        decision(w, p, action) ==
            [beforeState |-> beforeState,
             afterState |-> [weight |-> w, priority |-> p, performanceScore |-> score],
             action |-> action,
             confidence |-> confidence,
             baseline |-> [weight |-> baseWeight, priority |-> basePriority]]
    IN  IF confidence < 50
        THEN decision(provider.weight, provider.priority, "maintain")
        ELSE IF circuitState = "open"
        THEN decision(CircuitPenalty(provider).weight, CircuitPenalty(provider).priority,
                      "circuit_penalty")
        ELSE IF score > 800
                /\ (provider.weight < baseWeight \/ provider.priority > basePriority)
        THEN decision(baseWeight, basePriority, "recover")
        ELSE IF score > 850
        THEN decision(Min(100, FloorTimes12(provider.weight)),
                      Max(0, provider.priority - 1), "promote")
        ELSE IF score < 600
        THEN decision(Max(1, FloorTimes08(provider.weight)), provider.priority + 1,
                      "demote")
        ELSE decision(provider.weight, provider.priority, "maintain")

\* AutoScheduler.generateDecisions
AutoDecisions(store, tele, circ) ==
    [id \in EnabledIds(store) |->
        ApplyStrategy(store[id], TodayScore(tele[id].today),
                      TodayConfidence(tele[id].today), circ[id])]

\* an applyDecisions that writes every decision
AutoUpdatesAll(decisions) == DOMAIN decisions

\* AutoScheduler.applyDecisions: the decisions it writes
AutoUpdates(decisions) ==
    {id \in DOMAIN decisions :
        decisions[id].action # "maintain" /\ decisions[id].confidence >= 50}

\* AutoScheduler.applyDecisions: the loop has no try/catch, so the first update
\* that throws ends it; the providers before it (in list order, here by id) are
\* already written
AutoApplyDecisions(store, decisions, failing) ==
    LET updates == AutoUpdates(decisions)
        reached(id) == \A f \in updates \cap failing : id < f
    IN  [id \in DOMAIN store |->
            IF id \in updates /\ reached(id)
            THEN ApplyUpdate(store[id], decisions[id])
            ELSE store[id]]

\* AutoScheduler.execute
AutoExecute(store, tele, circ, dryRun, fault) ==
    LET decisions == AutoDecisions(store, tele, circ)
        summary == CalculateSummary(decisions)
        applies == ~dryRun /\ DOMAIN decisions # {}
        applied == IF applies THEN AutoApplyDecisions(store, decisions, fault.update)
                   ELSE store
        threw == applies /\ AutoUpdates(decisions) \cap fault.update # {}
    IN  IF fault.read
        THEN FailedResult(store)
        ELSE IF threw \/ fault.log
        THEN [FailedResult(applied) EXCEPT !.logged = 0]
        ELSE [ok |-> TRUE, store |-> applied, decisions |-> decisions,
              summary |-> summary,
              totalProviders |-> Cardinality(DOMAIN decisions),
              affectedProviders |-> summary.promoted + summary.demoted + summary.recovered,
              logged |-> 1]

\* ------------------------------------------------------ inputs

\* telemetry of one provider as the two analytics queries see it: the three
\* lookback windows and today's snapshot
Telemetry(short, medium, long, today) ==
    [short |-> short, medium |-> medium, long |-> long, today |-> today]

Silent == Telemetry(Window(0, 0, 0), Window(0, 0, 0), Window(0, 0, 0), Window(0, 0, 0))
Sparse == Telemetry(Window(0, 0, 0), Window(1, 0, 800), Window(2, 1, 1200), Window(2, 1, 1200))
Good == Telemetry(Window(10, 0, 500), Window(20, 0, 500), Window(40, 0, 600), Window(40, 0, 600))
Edge == Telemetry(Window(10, 0, 3750), Window(20, 0, 3750), Window(40, 0, 3750), Window(40, 0, 3750))
Fair == Telemetry(Window(10, 2, 4000), Window(20, 4, 4000), Window(40, 8, 4000), Window(40, 8, 4000))
Mediocre == Telemetry(Window(10, 4, 5000), Window(20, 8, 5000), Window(40, 16, 5000), Window(40, 16, 5000))
Poor == Telemetry(Window(10, 8, 9000), Window(20, 16, 9000), Window(40, 32, 9000), Window(40, 32, 9000))

Profiles == {Silent, Sparse, Good, Edge, Fair, Mediocre, Poor}

CircuitStates == {"closed", "open", "half-open"}

\* what a cycle can find for one provider: every profile with the circuit
\* closed, and the circuit open or half-open over no, good and poor traffic
Condition(tele, circ) == [tele |-> tele, circ |-> circ]
Conditions ==
    {Condition(tele, "closed") : tele \in Profiles}
    \cup {Condition(tele, "open") : tele \in {Silent, Good, Poor}}
    \cup {Condition(tele, "half-open") : tele \in {Good, Poor}}

\* maxWeightAdjustmentPercent values kept in the configuration store
AdjustmentPercents == {10, 50}

\* what can throw in a cycle: the reads, the update of one provider, the log write
NoFault == [read |-> FALSE, update |-> {}, log |-> FALSE]
Faults ==
    {NoFault, [NoFault EXCEPT !.read = TRUE], [NoFault EXCEPT !.log = TRUE]}
    \cup {[NoFault EXCEPT !.update = {id}] : id \in ProviderIds}

\* rows of the providers table before any automated adjustment
Row(w, p, enabled) ==
    [weight |-> w, priority |-> p, baseWeight |-> Null, basePriority |-> Null,
     isEnabled |-> enabled]

InitRows == {Row(10, 1, TRUE), Row(100, 0, TRUE), Row(1, 0, FALSE)}

\* the providers table before the first cycle: the last provider is enabled or
\* disabled, or no provider is enabled
InitStores ==
    {[id \in ProviderIds |-> IF id = NumProviders THEN last ELSE Row(10, 1, TRUE)] :
        last \in InitRows}
    \cup {[id \in ProviderIds |-> Row(1, 0, FALSE)]}

\* executeSchedule lines 596-601 and triggerManualSchedule lines 172-177
MABConfig(s) ==
    [explorationRate |-> s.explorationRate,
     minSampleSize |-> s.minSampleSize,
     circuitRecoveryWeightPercent |-> s.circuitRecoveryWeightPercent,
     maxWeightAdjustmentPercent |-> s.maxWeightAdjustmentPercent]

\* the system_settings row with the defaults the readers apply (?? 30, ?? 15, ...)
DefaultSettings ==
    [enableRealtimeSchedule |-> TRUE, scheduleIntervalSeconds |-> 30,
     explorationRate |-> 15, minSampleSize |-> 10,
     circuitRecoveryWeightPercent |-> 30, maxWeightAdjustmentPercent |-> 10]

\* which await of the cycle threw
FaultKind(fault) ==
    IF fault.read THEN "read"
    ELSE IF fault.update # {} THEN "update"
    ELSE IF fault.log THEN "log"
    ELSE "none"

Cycle(engine, dryRun, fault, result) ==
    [engine |-> engine, dryRun |-> dryRun, ok |-> result.ok,
     affected |-> result.affectedProviders, fault |-> FaultKind(fault),
     logged |-> result.logged]

NoCycle ==
    [engine |-> "none", dryRun |-> FALSE, ok |-> FALSE, affected |-> 0,
     fault |-> "none", logged |-> 0]

\* ------------------------------------------------ scheduler: the state machine

engineVars == <<providers, lastCycle, cycles>>

\* no pure function called yet
NoProbe == [fn |-> "none"]

\* the health record of a provider, as created on its first health query
ClosedHealth ==
    [circuitState |-> "closed", failureCount |-> 0, lastFailureTime |-> Null,
     circuitOpenUntil |-> Null, halfOpenSuccessCount |-> 0]

InitCommon ==
    /\ probe = NoProbe
    /\ health = ClosedHealth
    /\ now = 0
    /\ state = InitialState
    /\ starts = [i \in StartIds |-> IdleStart]
    /\ timers = [t \in TimerIds |-> FreeTimer]
    /\ lastOp = "other"
    /\ stopCtx = "none"
    /\ lastCycle = NoCycle
    /\ cycles = 0

StartsInFlight == {i \in StartIds : starts[i].pc # "idle"}

IdleStartSlot ==
    CHOOSE i \in StartIds :
        starts[i].pc = "idle" /\ \A j \in StartIds : starts[j].pc = "idle" => i <= j

\* start() up to its first await (line 477)
Start ==
    /\ lastOp' = "start"
    /\ stopCtx' = "none"
    /\ IF AlreadyRunning(state)
       THEN UNCHANGED starts
       ELSE /\ StartsInFlight # StartIds
            /\ starts' = [starts EXCEPT ![IdleStartSlot] =
                              [pc |-> "settings", intervalSeconds |-> Null, cfg |-> Null]]
    /\ UNCHANGED <<state, timers, settings, engineVars, auxVars>>

\* what follows the first cycle in start(): scheduleNext(intervalSeconds), return
AfterFirstCycle(i, st, tt) ==
    /\ st.isRunning => HasFree(tt)
    /\ state' = ScheduleNext(st, tt, starts[i].intervalSeconds)[1]
    /\ timers' = ScheduleNext(st, tt, starts[i].intervalSeconds)[2]
    /\ starts' = [starts EXCEPT ![i] = IdleStart]

\* start() from the settings read to the first await of executeSchedule()
StartSettings(i) ==
    /\ starts[i].pc = "settings"
    /\ \E ok \in BOOLEAN :
        IF ~ok
        THEN /\ state' = [state EXCEPT !.isRunning = FALSE, !.nextExecutionTime = Null]
             /\ starts' = [starts EXCEPT ![i] = IdleStart]
             /\ lastOp' = "other"
        ELSE IF StartDisabled(settings)
        THEN /\ starts' = [starts EXCEPT ![i] = IdleStart]
             /\ lastOp' = "startDisabled"
             /\ UNCHANGED state
        ELSE /\ state' = MarkRunning(state, settings)
             /\ starts' = [starts EXCEPT ![i] =
                               [pc |-> "cycleCfg",
                                intervalSeconds |-> settings.scheduleIntervalSeconds,
                                cfg |-> Null]]
             /\ lastOp' = "other"
    /\ UNCHANGED <<timers, settings, stopCtx, engineVars, auxVars>>

\* executeSchedule() lines 587-593 and 625-628: the settings read. The triple is
\* <<returned, state, timers>>
ExecuteRead(st, tt, ok) ==
    IF ~ok
    THEN <<TRUE, [st EXCEPT !.lastError = "error"], tt>>
    ELSE IF ~settings.enableRealtimeSchedule
    THEN <<TRUE, Stop(st, tt)[1], Stop(st, tt)[2]>>
    ELSE <<FALSE, st, tt>>

\* what the stop() of executeSchedule() (line 592) finds when the settings read
\* returned ok: no start() in flight besides the caller ("disabled"), or a
\* start() in flight that may yet set the running flag ("none"); any other
\* outcome of the read leaves the context as it was
CycleStopContext(ok, others) ==
    IF ok /\ ~settings.enableRealtimeSchedule
    THEN IF others = {} THEN "disabled" ELSE "none"
    ELSE stopCtx

\* the telemetry and circuit states the recurring cycles find
SchedTele == [id \in ProviderIds |-> Good]
SchedCirc == [id \in ProviderIds |-> "closed"]

\* executeSchedule() lines 604-624: the engine call and the bookkeeping
ExecuteRun(st, cfg, result) ==
    [st EXCEPT !.lastExecutionTime = 1,
               !.totalExecutions = @ + 1,
               !.nextExecutionTime = cfg.scheduleIntervalSeconds,
               !.lastError = IF result.ok THEN "null" ELSE "error"]

\* the first cycle of start(): the settings read of executeSchedule()
StartCycleConfig(i) ==
    /\ starts[i].pc = "cycleCfg"
    /\ \E ok \in BOOLEAN :
        LET rd == ExecuteRead(state, timers, ok)
        IN  /\ stopCtx' = CycleStopContext(ok, StartsInFlight \ {i})
            /\ IF rd[1]
               THEN /\ AfterFirstCycle(i, rd[2], rd[3])
                    /\ lastOp' = "other"
               ELSE /\ starts' = [starts EXCEPT ![i].pc = "cycleRun", ![i].cfg = settings]
                    /\ lastOp' = "other"
                    /\ UNCHANGED <<state, timers>>
    /\ UNCHANGED <<settings, engineVars, auxVars>>

\* the first cycle of start(): the engine call, then the rest of start()
StartCycleRun(i) ==
    /\ starts[i].pc = "cycleRun"
    /\ state.totalExecutions < MaxExec
    /\ \E failed \in BOOLEAN :
        LET fault == [NoFault EXCEPT !.read = failed]
            config == MABConfig(starts[i].cfg)
            result == RealtimeExecute(providers, SchedTele, SchedCirc, config, FALSE, fault)
        IN  /\ AfterFirstCycle(i, ExecuteRun(state, starts[i].cfg, result), timers)
            /\ providers' = result.store
    /\ lastOp' = "other"
    /\ UNCHANGED <<settings, stopCtx, lastCycle, cycles, auxVars>>

\* the setTimeout callback begins: executeSchedule() up to its first await
TimerFire(t) ==
    /\ timers[t].pc = "armed"
    /\ timers' = [timers EXCEPT ![t].pc = "cycleCfg", ![t].delay = Null]
    /\ lastOp' = "other"
    /\ UNCHANGED <<state, starts, settings, stopCtx, engineVars, auxVars>>

\* a timer cycle: the settings read of executeSchedule()
TimerCycleConfig(t) ==
    /\ timers[t].pc = "cycleCfg"
    /\ \E ok \in BOOLEAN :
        LET rd == ExecuteRead(state, timers, ok)
        IN  /\ stopCtx' = CycleStopContext(ok, StartsInFlight)
            /\ IF rd[1]
               THEN /\ state' = rd[2]
                    /\ timers' = [rd[3] EXCEPT ![t].pc = "reload"]
                    /\ lastOp' = "other"
               ELSE /\ timers' = [timers EXCEPT ![t].pc = "cycleRun", ![t].cfg = settings]
                    /\ lastOp' = "other"
                    /\ UNCHANGED state
    /\ UNCHANGED <<starts, settings, engineVars, auxVars>>

\* a timer cycle: the engine call; the callback then awaits getSystemSettings()
TimerCycleRun(t) ==
    /\ timers[t].pc = "cycleRun"
    /\ state.totalExecutions < MaxExec
    /\ \E failed \in BOOLEAN :
        LET fault == [NoFault EXCEPT !.read = failed]
            config == MABConfig(timers[t].cfg)
            result == RealtimeExecute(providers, SchedTele, SchedCirc, config, FALSE, fault)
        IN  /\ state' = ExecuteRun(state, timers[t].cfg, result)
            /\ providers' = result.store
    /\ timers' = [timers EXCEPT ![t].pc = "reload", ![t].cfg = Null]
    /\ lastOp' = "other"
    /\ UNCHANGED <<starts, settings, stopCtx, lastCycle, cycles, auxVars>>

\* the setTimeout callback, lines 531-537: re-read the interval, re-arm
TimerReload(t) ==
    /\ timers[t].pc = "reload"
    /\ \E ok \in BOOLEAN :
        LET freed == [timers EXCEPT ![t] = FreeTimer]
        IN  IF ok /\ state.isRunning
            THEN /\ state' = ScheduleNext(state, freed, ReloadInterval(state, settings))[1]
                 /\ timers' = ScheduleNext(state, freed, ReloadInterval(state, settings))[2]
                 /\ lastOp' = "other"
            ELSE /\ timers' = freed
                 /\ lastOp' = "other"
                 /\ UNCHANGED state
    /\ UNCHANGED <<starts, settings, stopCtx, engineVars, auxVars>>

\* what a stop() call finds: no start() in flight ("quiet"), a running scheduler
\* with the first cycle of the only start() in flight ("firstCycle"), or
\* anything else ("none")
StopContext ==
    IF StartsInFlight = {} THEN "quiet"
    ELSE IF /\ state.isRunning
            /\ Cardinality(StartsInFlight) = 1
            /\ \A i \in StartsInFlight : starts[i].pc \in CyclePcs
    THEN "firstCycle"
    ELSE "none"

\* stop() called from outside (toggleRealtimeSchedule, the signal handlers)
StopCall ==
    /\ state' = Stop(state, timers)[1]
    /\ timers' = Stop(state, timers)[2]
    /\ stopCtx' = StopContext
    /\ lastOp' = "other"
    /\ UNCHANGED <<starts, settings, engineVars, auxVars>>

\* restart(): stop(), then start() up to its first await
Restart ==
    /\ StartsInFlight # StartIds
    /\ state' = Stop(state, timers)[1]
    /\ timers' = Stop(state, timers)[2]
    /\ starts' = [starts EXCEPT ![IdleStartSlot] =
                      [pc |-> "settings", intervalSeconds |-> Null, cfg |-> Null]]
    /\ stopCtx' = "none"
    /\ lastOp' = "other"
    /\ UNCHANGED <<settings, engineVars, auxVars>>

\* updateSystemSettings with the enable flag and the interval
UpdateSchedule ==
    /\ \E enabled \in BOOLEAN, seconds \in Intervals :
        /\ settings' = [settings EXCEPT !.enableRealtimeSchedule = enabled,
                                        !.scheduleIntervalSeconds = seconds]
        /\ settings' # settings
    /\ lastOp' = "other"
    /\ UNCHANGED <<state, starts, timers, stopCtx, engineVars, auxVars>>

InitSched ==
    /\ InitCommon
    /\ settings = DefaultSettings
    /\ providers = [id \in ProviderIds |-> Row(10, 1, TRUE)]

NextSched ==
    \/ Start
    \/ \E i \in StartIds : StartSettings(i)
    \/ \E i \in StartIds : StartCycleConfig(i)
    \/ \E i \in StartIds : StartCycleRun(i)
    \/ \E t \in TimerIds : TimerFire(t)
    \/ \E t \in TimerIds : TimerCycleConfig(t)
    \/ \E t \in TimerIds : TimerCycleRun(t)
    \/ \E t \in TimerIds : TimerReload(t)
    \/ StopCall
    \/ Restart
    \/ UpdateSchedule

SpecSched == InitSched /\ [][NextSched]_vars

\* ------------------------------------------------ recurring scheduler: properties

\* a step in which some executeSchedule() call begins
CycleBegins ==
    \/ \E i \in StartIds : starts'[i].pc = "cycleCfg" /\ starts[i].pc # "cycleCfg"
    \/ \E t \in TimerIds : timers'[t].pc = "cycleCfg" /\ timers[t].pc # "cycleCfg"

\* a step in which some setTimeout task is armed
TimerArmed == \E t \in TimerIds : timers'[t].pc = "armed" /\ timers[t].pc # "armed"

\* C1: at most one scheduling cycle of the BackgroundScheduler is in flight at
\* any time, under every interleaving of start(), stop(), restart(), timer
\* firings and cycle completions.
C1_AtMostOneCycleInFlight == InFlight(starts, timers) <= 1

\* C2: once stop() has returned (with no start() in flight) and until start()
\* or restart() is called again, no scheduling cycle begins and no deferred
\* task is armed.
C2_NoCycleAfterStop ==
    [][(stopCtx = "quiet" /\ stopCtx' = "quiet") => (~CycleBegins /\ ~TimerArmed)]_vars

\* C3: start() has set isRunning when its first cycle begins; and after a
\* stop() issued during that first cycle, through the completion of the cycle
\* and until start() is called again, isRunning is false and no deferred task
\* is armed.
C3_FirstCycleStop ==
    [][/\ \A i \in StartIds :
              (starts[i].pc = "settings" /\ starts'[i].pc \in CyclePcs) => state'.isRunning
       /\ stopCtx' = "firstCycle" => (~state'.isRunning /\ ~TimerArmed)]_vars

\* C3 witness: the first cycle has completed after a stop() that found it in flight
C3_Witness ==
    /\ stopCtx = "firstCycle"
    /\ StartsInFlight = {}
    /\ state.totalExecutions = 1

\* C4: start() called while the scheduler is running is a no-op: no start()
\* body runs, no cycle begins, no deferred task is armed, and the scheduler
\* state (isRunning, nextExecutionTime, totalExecutions, config) is unchanged.
C4_StartWhileRunning ==
    [][(lastOp' = "start" /\ state.isRunning) =>
           UNCHANGED <<state, starts, timers, settings, providers>>]_vars

\* C4 witness: start() has just been called on a running scheduler with a
\* deferred task pending
C4_Witness ==
    /\ lastOp = "start"
    /\ state.isRunning
    /\ \E t \in TimerIds : timers[t].pc = "armed"

\* C16: when start() reads a configuration in which enableRealtimeSchedule is
\* false, it returns with the scheduler as it was: isRunning is not set, no
\* cycle begins, no deferred task is armed and no provider is written.
C16_DisabledStartStaysStopped ==
    [][\A i \in StartIds :
          (/\ starts[i].pc = "settings" /\ starts'[i] # starts[i]
           /\ ~settings.enableRealtimeSchedule)
            => /\ starts'[i] = IdleStart
               /\ ~CycleBegins /\ ~TimerArmed
               /\ ~state.isRunning => ~state'.isRunning
               /\ providers' = providers]_vars

\* C16 witness: start() has just returned on a disabled configuration, leaving
\* a stopped scheduler with nothing in flight
C16_Witness ==
    /\ lastOp = "startDisabled"
    /\ ~settings.enableRealtimeSchedule
    /\ ~state.isRunning
    /\ InFlight(starts, timers) = 0
    /\ \A t \in TimerIds : timers[t].pc = "free"

\* a step in which some executeSchedule() call reaches the engine call
EngineCalled ==
    \/ \E i \in StartIds : starts'[i].pc = "cycleRun" /\ starts[i].pc # "cycleRun"
    \/ \E t \in TimerIds : timers'[t].pc = "cycleRun" /\ timers[t].pc # "cycleRun"

\* C17: a cycle that finds enableRealtimeSchedule false stops the scheduler:
\* that cycle writes no provider and, from then until start() or restart() is
\* called, isRunning is false, no deferred task is armed and no cycle reaches
\* the engine.
C17_DisabledCycleStops ==
    [][stopCtx' = "disabled"
         => /\ ~state'.isRunning
            /\ ~TimerArmed
            /\ ~EngineCalled
            /\ stopCtx # "disabled" => providers' = providers]_vars

\* C18: every cycle execution that does not find scheduling disabled, whether
\* it succeeds or fails, sets lastExecutionTime, adds one to totalExecutions
\* and sets nextExecutionTime from the interval.
C18_EveryCycleCounted ==
    [][(/\ settings.enableRealtimeSchedule
        /\ \/ \E i \in StartIds : starts[i].pc \in CyclePcs /\ starts'[i].pc = "idle"
           \/ \E t \in TimerIds : timers[t].pc \in CyclePcs /\ timers'[t].pc = "reload")
         => /\ state'.totalExecutions = state.totalExecutions + 1
            /\ state'.lastExecutionTime # Null
            /\ state'.nextExecutionTime \in Intervals]_vars

\* the delays of the deferred tasks armed in a step
ArmedDelays ==
    {timers'[t].delay : t \in {u \in TimerIds : timers'[u].pc = "armed" /\ timers[u].pc # "armed"}}

\* C19 as stated: the delay armed after each completed cycle is the interval
\* the configuration holds at that moment.
C19_FreshIntervalAlways ==
    [][ArmedDelays \subseteq {settings.scheduleIntervalSeconds}]_vars

\* C19: the delay the timer callback arms after its cycle is the interval it
\* reads from the configuration after that cycle; the delay start() arms
\* after its first cycle is the interval start() read before that cycle.
C19_IntervalReload ==
    [][/\ \A t \in TimerIds :
              (timers[t].pc = "reload" /\ timers'[t].pc # "reload")
                => ArmedDelays \subseteq {settings.scheduleIntervalSeconds}
       /\ \A i \in StartIds :
              (starts[i].pc \in CyclePcs /\ starts'[i].pc = "idle")
                => ArmedDelays \subseteq {starts[i].intervalSeconds}]_vars

\* C19 witness: a running scheduler started with one interval has a deferred
\* task pending with the other, armed by the callback and not by start()
C19_Witness ==
    /\ state.isRunning
    /\ StartsInFlight = {}
    /\ state.totalExecutions = 1
    /\ \E t \in TimerIds :
          /\ timers[t].pc = "armed"
          /\ state.intervalId = t
          /\ timers[t].delay = settings.scheduleIntervalSeconds
          /\ timers[t].delay # state.config.intervalSeconds

\* C15: a failing configuration read never escapes the recurring scheduler:
\* while the scheduler is running and scheduling is enabled, the timer
\* callback that has finished its cycle arms the next deferred task.
C15_KeepsTicking ==
    [][\A t \in TimerIds :
          (/\ timers[t].pc = "reload" /\ timers'[t].pc # "reload"
           /\ state.isRunning /\ settings.enableRealtimeSchedule)
            => TimerArmed]_vars

\* C33: in every reachable state of the recurring scheduler, isRunning = false
\* implies that nextExecutionTime is null and that no deferred task is pending,
\* also after stop() is called while a cycle is in flight and that cycle then
\* completes.
C33_StoppedMeansIdle ==
    ~state.isRunning
      => /\ state.nextExecutionTime = Null
         /\ \A t \in TimerIds : timers[t].pc # "armed"

\* C34: at most one deferred task of the recurring scheduler is pending at any
\* time, and state.intervalId refers to it, under every interleaving of
\* start(), stop(), restart() and cycle completions, two overlapping start()
\* calls included.
C34_OnePendingTask ==
    /\ Cardinality({t \in TimerIds : timers[t].pc = "armed"}) <= 1
    /\ \A t \in TimerIds : timers[t].pc = "armed" => state.intervalId = t

\* ------------------------------------------------ on-demand cycles

\* RealtimeDecisionEngine.execute(config, dryRun), as triggerManualSchedule
\* calls it with the stored tuning
RealtimeCycle ==
    /\ cycles < MaxCycles
    /\ \E dryRun \in BOOLEAN, found \in [ProviderIds -> Conditions], fault \in Faults :
        LET tele == [id \in ProviderIds |-> found[id].tele]
            circ == [id \in ProviderIds |-> found[id].circ]
            result == RealtimeExecute(providers, tele, circ, MABConfig(settings),
                                      dryRun, fault)
        IN  /\ providers' = result.store
            /\ lastCycle' = Cycle("realtime", dryRun, fault, result)
    /\ cycles' = cycles + 1
    /\ lastOp' = "other"
    /\ UNCHANGED <<state, starts, timers, settings, stopCtx, auxVars>>

\* AutoScheduler.execute(dryRun), as previewAutoSchedule (dryRun = true) and
\* executeAutoSchedule (dryRun = false) call it
AutoCycle ==
    /\ cycles < MaxCycles
    /\ \E dryRun \in BOOLEAN, found \in [ProviderIds -> Conditions], fault \in Faults :
        LET tele == [id \in ProviderIds |-> found[id].tele]
            circ == [id \in ProviderIds |-> found[id].circ]
            result == AutoExecute(providers, tele, circ, dryRun, fault)
        IN  /\ providers' = result.store
            /\ lastCycle' = Cycle("auto", dryRun, fault, result)
    /\ cycles' = cycles + 1
    /\ lastOp' = "other"
    /\ UNCHANGED <<state, starts, timers, settings, stopCtx, auxVars>>

InitEngine ==
    /\ InitCommon
    /\ \E percent \in AdjustmentPercents :
        settings = [DefaultSettings EXCEPT !.maxWeightAdjustmentPercent = percent]
    /\ providers \in InitStores

NextEngine ==
    \/ RealtimeCycle
    \/ AutoCycle

SpecEngine == InitEngine /\ [][NextEngine]_vars

\* ------------------------------------------------ configuration updates

\* the values an administrator can submit for the three bounded fields: the
\* default, one below the documented range and one above it
ConfigIntervals == {10, 30, 400}
ConfigRates == {-5, 15, 120}
ConfigAdjustments == {0, 10, 60}

\* the session of the caller of a server action (admin or not) and the
\* action's outcome, kept in probe
Caller(fn, admin, ok) == [fn |-> fn, admin |-> admin, ok |-> ok]

\* updateSystemSettings(payload): every field present in the payload is copied
\* into the stored row
UpdateSystemSettings(s, payload) ==
    [s EXCEPT !.scheduleIntervalSeconds = payload.scheduleIntervalSeconds,
              !.explorationRate = payload.explorationRate,
              !.maxWeightAdjustmentPercent = payload.maxWeightAdjustmentPercent]

\* updateRealtimeScheduleConfig(config): store the fields, then restart the
\* scheduler if it is running; a failing store write leaves everything as it
\* was and is reported as ok: false
UpdateRealtimeScheduleConfig ==
    /\ \E seconds \in ConfigIntervals, rate \in ConfigRates,
          percent \in ConfigAdjustments, ok \in BOOLEAN, admin \in BOOLEAN :
        LET payload == [scheduleIntervalSeconds |-> seconds,
                        explorationRate |-> rate,
                        maxWeightAdjustmentPercent |-> percent]
        IN  /\ probe' = Caller("updateRealtimeScheduleConfig", admin, ok)
            /\ IF ~ok
               THEN UNCHANGED <<settings, state, timers, starts>>
               ELSE
                 /\ settings' = UpdateSystemSettings(settings, payload)
                 /\ IF state.isRunning
                    THEN /\ StartsInFlight # StartIds
                         /\ state' = Stop(state, timers)[1]
                         /\ timers' = Stop(state, timers)[2]
                         /\ starts' = [starts EXCEPT ![IdleStartSlot] =
                                           [pc |-> "settings", intervalSeconds |-> Null,
                                            cfg |-> Null]]
                    ELSE UNCHANGED <<state, timers, starts>>
    /\ lastOp' = "other"
    /\ stopCtx' = "none"
    /\ UNCHANGED <<engineVars, health, now>>

\* what a manually triggered cycle finds for one provider
ManualConditions == {Condition(Good, "closed"), Condition(Poor, "closed")}

\* triggerManualSchedule(): one bandit cycle with the stored tuning, not a dry
\* run
TriggerManualSchedule ==
    /\ cycles < MaxCycles
    /\ \E found \in [ProviderIds -> ManualConditions], failed \in BOOLEAN,
          admin \in BOOLEAN :
        LET tele == [id \in ProviderIds |-> found[id].tele]
            circ == [id \in ProviderIds |-> found[id].circ]
            fault == [NoFault EXCEPT !.read = failed]
            result == RealtimeExecute(providers, tele, circ, MABConfig(settings),
                                      FALSE, fault)
        IN  /\ providers' = result.store
            /\ lastCycle' = Cycle("realtime", FALSE, fault, result)
            /\ probe' = Caller("triggerManualSchedule", admin, result.ok)
    /\ cycles' = cycles + 1
    /\ lastOp' = "other"
    /\ UNCHANGED <<state, starts, timers, settings, stopCtx, health, now>>

InitConfig ==
    /\ InitCommon
    /\ settings = DefaultSettings
    /\ providers = [id \in ProviderIds |-> Row(10, 1, TRUE)]

NextConfig ==
    \/ UpdateRealtimeScheduleConfig
    \/ TriggerManualSchedule

SpecConfig == InitConfig /\ [][NextConfig]_vars

\* the documented ranges of the bounded fields
InRange(s) ==
    /\ s.scheduleIntervalSeconds >= 30 /\ s.scheduleIntervalSeconds <= 300
    /\ s.explorationRate >= 0 /\ s.explorationRate <= 100
    /\ s.maxWeightAdjustmentPercent >= 1 /\ s.maxWeightAdjustmentPercent <= 50

\* C20: an update with a bounded field out of range is rejected: the stored
\* configuration stays within the ranges, and no cycle runs with a stored
\* value outside them.
C20_OutOfRangeRejected ==
    [][/\ InRange(settings) => InRange(settings')
       /\ cycles' # cycles => InRange(settings)]_vars

\* ------------------------------------------------ server actions

\* the rows getProviderAnalytics returns: the enabled providers
Known(store, providerId) == providerId \in DOMAIN store /\ store[providerId].isEnabled

\* an update object that writes the baseline columns as well, one off
ResetDataWithBaseline(row) ==
    [weight |-> row.baseWeight, priority |-> row.basePriority,
     base_weight |-> row.baseWeight + 1, base_priority |-> row.basePriority + 1]

\* the object resetProviderToBaseline hands to updateProvider: weight and
\* priority only
ResetData(row) ==
    [weight |-> row.baseWeight, priority |-> row.basePriority,
     base_weight |-> Null, base_priority |-> Null]

\* the session check of the actions of provider-analytics.ts
IsAdmin(admin) == admin

\* resetProviderToBaseline(providerId): the store it leaves and its ok flag
ResetToBaseline(store, providerId, admin, failed) ==
    IF ~IsAdmin(admin) \/ ~Known(store, providerId)
    THEN [ok |-> FALSE, store |-> store]
    ELSE IF store[providerId].baseWeight = Null \/ store[providerId].basePriority = Null
    THEN [ok |-> FALSE, store |-> store]
    ELSE IF failed
    THEN [ok |-> FALSE, store |-> store]
    ELSE [ok |-> TRUE,
          store |-> [store EXCEPT ![providerId] =
                         UpdateProvider(@, ResetData(store[providerId]))]]

\* provider ids a caller can pass: the rows of the table and an unknown one
CallerIds == 0..NumProviders

\* resetProviderToBaseline(providerId)
ResetProviderToBaseline ==
    /\ \E providerId \in CallerIds, admin \in BOOLEAN, failed \in BOOLEAN :
        LET result == ResetToBaseline(providers, providerId, admin, failed)
        IN  /\ providers' = result.store
            /\ probe' = [fn |-> "resetProviderToBaseline", admin |-> admin,
                         ok |-> result.ok, id |-> providerId, before |-> providers]
    /\ lastOp' = "other"
    /\ UNCHANGED <<state, starts, timers, settings, stopCtx, lastCycle, cycles,
                   health, now>>

\* executeAutoSchedule(): one committed rule cycle, admins only
ExecuteAutoSchedule ==
    /\ cycles < MaxCycles
    /\ \E found \in [ProviderIds -> ManualConditions], failed \in BOOLEAN,
          admin \in BOOLEAN :
        LET tele == [id \in ProviderIds |-> found[id].tele]
            circ == [id \in ProviderIds |-> found[id].circ]
            fault == [NoFault EXCEPT !.read = failed]
            result == AutoExecute(providers, tele, circ, FALSE, fault)
        IN  IF ~IsAdmin(admin)
            THEN /\ probe' = Caller("executeAutoSchedule", admin, FALSE)
                 /\ UNCHANGED <<providers, lastCycle, cycles>>
            ELSE /\ providers' = result.store
                 /\ lastCycle' = Cycle("auto", FALSE, fault, result)
                 /\ cycles' = cycles + 1
                 /\ probe' = Caller("executeAutoSchedule", admin, result.ok)
    /\ lastOp' = "other"
    /\ UNCHANGED <<state, starts, timers, settings, stopCtx, health, now>>

\* resetAllProvidersToBaseline(): every row with a baseline goes back to it
ResetAllProvidersToBaseline(store) ==
    [id \in DOMAIN store |->
        IF store[id].baseWeight # Null /\ store[id].basePriority # Null
        THEN UpdateProvider(store[id], ResetData(store[id]))
        ELSE store[id]]

\* toggleRealtimeSchedule(enabled): store the flag; on: reset every provider
\* to its baseline and restart the scheduler; off: stop it
ToggleRealtimeSchedule ==
    /\ \E enabled \in BOOLEAN, ok \in BOOLEAN, admin \in BOOLEAN :
        /\ probe' = Caller("toggleRealtimeSchedule", admin, ok)
        /\ IF ~ok
           THEN UNCHANGED <<settings, providers, state, timers, starts>>
           ELSE IF enabled
           THEN /\ StartsInFlight # StartIds
                /\ settings' = [settings EXCEPT !.enableRealtimeSchedule = TRUE]
                /\ providers' = ResetAllProvidersToBaseline(providers)
                /\ state' = Stop(state, timers)[1]
                /\ timers' = Stop(state, timers)[2]
                /\ starts' = [starts EXCEPT ![IdleStartSlot] =
                                  [pc |-> "settings", intervalSeconds |-> Null,
                                   cfg |-> Null]]
           ELSE /\ settings' = [settings EXCEPT !.enableRealtimeSchedule = FALSE]
                /\ state' = Stop(state, timers)[1]
                /\ timers' = Stop(state, timers)[2]
                /\ UNCHANGED <<providers, starts>>
    /\ lastOp' = "other"
    /\ stopCtx' = "none"
    /\ UNCHANGED <<lastCycle, cycles, health, now>>

\* the scheduler as the actions can find it: never started, or running with
\* its timer armed
RunningState ==
    [MarkRunning(InitialState, DefaultSettings) EXCEPT !.intervalId = 1]

\* the provider rows the actions can find: never adjusted, or moved off a
\* stored baseline by earlier cycles
AdminRows ==
    {Row(10, 1, TRUE), Row(1, 0, FALSE),
     [Row(5, 5, TRUE) EXCEPT !.baseWeight = 90, !.basePriority = 1],
     [Row(12, 0, FALSE) EXCEPT !.baseWeight = 10, !.basePriority = 1]}

InitAdmin ==
    /\ probe = NoProbe
    /\ health = ClosedHealth
    /\ now = 0
    /\ starts = [i \in StartIds |-> IdleStart]
    /\ lastOp = "other"
    /\ stopCtx = "none"
    /\ lastCycle = NoCycle
    /\ cycles = 0
    /\ settings = DefaultSettings
    /\ providers \in [ProviderIds -> AdminRows]
    /\ \E running \in BOOLEAN :
        IF running
        THEN /\ state = RunningState
             /\ timers = [t \in TimerIds |->
                              IF t = 1 THEN [pc |-> "armed", delay |-> 30, cfg |-> Null]
                              ELSE FreeTimer]
        ELSE /\ state = InitialState
             /\ timers = [t \in TimerIds |-> FreeTimer]

\* one call of one server action
NextAdmin ==
    \/ probe = NoProbe /\ ExecuteAutoSchedule
    \/ probe = NoProbe /\ ResetProviderToBaseline
    \/ probe = NoProbe /\ TriggerManualSchedule
    \/ probe = NoProbe /\ ToggleRealtimeSchedule
    \/ probe = NoProbe /\ UpdateRealtimeScheduleConfig

SpecAdmin == InitAdmin /\ [][NextAdmin]_vars

\* C38: resetProviderToBaseline(id) either fails and changes nothing (caller
\* not admin, provider unknown, baseWeight or basePriority null), or sets the
\* provider's weight and priority to exactly baseWeight and basePriority and
\* leaves baseWeight and basePriority themselves unchanged.
C38_ResetToBaselineOrNothing ==
    probe.fn = "resetProviderToBaseline"
      => IF probe.ok
         THEN /\ probe.admin
              /\ Known(probe.before, probe.id)
              /\ probe.before[probe.id].baseWeight # Null
              /\ probe.before[probe.id].basePriority # Null
              /\ providers[probe.id].weight = probe.before[probe.id].baseWeight
              /\ providers[probe.id].priority = probe.before[probe.id].basePriority
              /\ providers[probe.id].baseWeight = probe.before[probe.id].baseWeight
              /\ providers[probe.id].basePriority = probe.before[probe.id].basePriority
              /\ \A id \in ProviderIds \ {probe.id} : providers[id] = probe.before[id]
         ELSE providers = probe.before

\* C38 witness: an admin has reset a provider that earlier cycles had moved
\* from (90, 1) to (5, 5)
C38_Witness ==
    /\ probe.fn = "resetProviderToBaseline"
    /\ probe.ok
    /\ probe.before[probe.id].weight = 5 /\ probe.before[probe.id].priority = 5
    /\ providers[probe.id].weight = 90 /\ providers[probe.id].priority = 1
    /\ providers[probe.id].baseWeight = 90

\* the scheduling operations open to administrators only
AdminOperations ==
    {"executeAutoSchedule", "resetProviderToBaseline", "triggerManualSchedule",
     "toggleRealtimeSchedule", "updateRealtimeScheduleConfig"}

\* C39: no scheduling operation changes provider weights, settings or the
\* scheduler's run state for a caller without an admin session:
\* executeAutoSchedule, resetProviderToBaseline, triggerManualSchedule,
\* toggleRealtimeSchedule and updateRealtimeScheduleConfig return without side
\* effects when the session is missing or not admin.
C39_AdminOnly ==
    [][(probe'.fn \in AdminOperations /\ ~probe'.admin)
          => UNCHANGED <<providers, settings, state, timers, starts>>]_vars

\* ------------------------------------------------ the pure functions, called alone

\* Each behaviour of this part is one call of one pure function on arguments
\* drawn from the sets below; probe keeps the arguments and the result.

\* metrics handed to calculateScore: errorRate = e/d over the denominators d,
\* avgResponseTime in milliseconds
Denominators == {1, 2, 4, 10}
ResponseTimes == {0, 1, 500, 2500, 3750, 9999, 10000, 10001, 20000, 60000}

\* PerformanceScorer.calculateScore(metrics)
ScoreCall ==
    /\ probe = NoProbe
    /\ \E d \in Denominators, ms \in ResponseTimes :
        \E e \in 0..d :
            probe' = [fn |-> "score", e |-> e, d |-> d, ms |-> ms,
                      out |-> CalculateScore(e, ms * d, d)]
    /\ UNCHANGED <<state, starts, timers, settings, lastOp, stopCtx, engineVars,
                   health, now>>

\* sample sizes and minimum sizes handed to calculateConfidence
SampleSizes == 0..60
MinSizes == {1, 4, 10}

\* PerformanceScorer.calculateConfidence(sampleSize, minSize)
ConfidenceCall ==
    /\ probe = NoProbe
    /\ \E sampleSize \in SampleSizes, minSize \in MinSizes :
        probe' = [fn |-> "confidence", sampleSize |-> sampleSize, minSize |-> minSize,
                  out |-> CalculateConfidence(sampleSize, minSize)]
    /\ UNCHANGED <<state, starts, timers, settings, lastOp, stopCtx, engineVars,
                   health, now>>

\* what one lookback window of a row can hold
WindowSamples ==
    {Window(0, 0, 0), Window(3, 1, 1200), Window(10, 0, 500), Window(20, 4, 4000),
     Window(40, 32, 9000)}

\* getProviderMultiWindowAnalytics: the fusion of the three windows of one row
FuseCall ==
    /\ probe = NoProbe
    /\ \E short \in WindowSamples, medium \in WindowSamples, long \in WindowSamples :
        probe' = [fn |-> "fuse", short |-> short, medium |-> medium, long |-> long,
                  out |-> WeightedMetrics(short, medium, long)]
    /\ UNCHANGED <<state, starts, timers, settings, lastOp, stopCtx, engineVars,
                   health, now>>

\* traffic with no error and 2500 ms everywhere: the score is 90.0
Ninety ==
    Telemetry(Window(10, 0, 2500), Window(20, 0, 2500), Window(40, 0, 2500),
              Window(40, 0, 2500))

\* provider rows as the policies can find them: never adjusted, or with a
\* baseline that equals or differs from the current values
PolicyRows ==
    {[Row(w, p, TRUE) EXCEPT !.baseWeight = base[1], !.basePriority = base[2]] :
        w \in {1, 5, 10, 50, 90, 100}, p \in {0, 1, 5},
        base \in {<<Null, Null>>} \cup ({10, 90} \X {0, 1})}

\* the tunings of the bandit policy kept in the configuration store
PolicyConfigs ==
    {MABConfig([DefaultSettings EXCEPT !.maxWeightAdjustmentPercent = percent,
                                       !.circuitRecoveryWeightPercent = recovery]) :
        percent \in AdjustmentPercents, recovery \in {30, 70}}

\* MABScheduler.generateDecisions and convertToScheduleDecisions for one row
BanditCall ==
    /\ probe = NoProbe
    /\ \E row \in PolicyRows, tele \in Profiles \cup {Ninety},
          circ \in CircuitStates, config \in PolicyConfigs :
        LET mab == MABDecision(MultiWindowRow(row, tele, circ), config)
        IN  probe' = [fn |-> "bandit", row |-> row, circ |-> circ, config |-> config,
                      mab |-> mab, decision |-> ConvertToScheduleDecision(mab)]
    /\ UNCHANGED <<state, starts, timers, settings, lastOp, stopCtx, engineVars,
                   health, now>>

\* AutoScheduler.applyStrategy and applyDecisions for one row
RuleCall ==
    /\ probe = NoProbe
    /\ \E row \in PolicyRows, today \in WindowSamples, circ \in CircuitStates :
        LET decision == ApplyStrategy(row, TodayScore(today), TodayConfidence(today), circ)
            decisions == [id \in {1} |-> decision]
            store == [id \in {1} |-> row]
        IN  probe' = [fn |-> "rule", row |-> row, circ |-> circ, decision |-> decision,
                      updated |-> 1 \in AutoUpdates(decisions),
                      stored |-> AutoApplyDecisions(store, decisions, {})[1]]
    /\ UNCHANGED <<state, starts, timers, settings, lastOp, stopCtx, engineVars,
                   health, now>>

\* explorationRate values the configuration store accepts (0-100)
ExplorationRates == {0, 15, 100}

\* MABScheduler.generateDecisions for one row, twice: with the stored tuning
\* and with another explorationRate
GenerateCall ==
    /\ probe = NoProbe
    /\ \E row \in PolicyRows, tele \in Profiles \cup {Ninety},
          circ \in CircuitStates, config \in PolicyConfigs, rate \in ExplorationRates :
        LET provider == MultiWindowRow(row, tele, circ)
        IN  probe' = [fn |-> "generate", rate |-> rate,
                      first |-> MABDecision(provider, config),
                      second |-> MABDecision(provider,
                                             [config EXCEPT !.explorationRate = rate])]
    /\ UNCHANGED <<state, starts, timers, settings, lastOp, stopCtx, engineVars,
                   health, now>>

\* providers tables a cycle can find: before any adjustment, or with one row
\* moved off its baseline
SummaryStores ==
    InitStores
    \cup {[id \in ProviderIds |->
              IF id = 1
              THEN [Row(5, 5, TRUE) EXCEPT !.baseWeight = 90, !.basePriority = 1]
              ELSE Row(100, 0, TRUE)]}

\* execute(dryRun) of either engine over one providers table: the decisions
\* and the summary it returns
ExecuteCall ==
    /\ probe = NoProbe
    /\ \E store \in SummaryStores, found \in [ProviderIds -> Conditions],
          fault \in Faults, dryRun \in BOOLEAN, engine \in {"realtime", "auto"} :
        LET tele == [id \in ProviderIds |-> found[id].tele]
            circ == [id \in ProviderIds |-> found[id].circ]
            result == IF engine = "realtime"
                      THEN RealtimeExecute(store, tele, circ, MABConfig(settings),
                                           dryRun, fault)
                      ELSE AutoExecute(store, tele, circ, dryRun, fault)
        IN  probe' = [fn |-> "execute", engine |-> engine, ok |-> result.ok,
                      decisions |-> result.decisions, summary |-> result.summary,
                      totalProviders |-> result.totalProviders,
                      affectedProviders |-> result.affectedProviders]
    /\ UNCHANGED <<state, starts, timers, settings, lastOp, stopCtx, engineVars,
                   health, now>>

InitPolicy ==
    /\ InitCommon
    /\ settings = DefaultSettings
    /\ providers = [id \in ProviderIds |-> Row(10, 1, TRUE)]

NextPolicy ==
    \/ ScoreCall
    \/ ConfidenceCall
    \/ FuseCall
    \/ BanditCall
    \/ RuleCall
    \/ ExecuteCall
    \/ GenerateCall

SpecPolicy == InitPolicy /\ [][NextPolicy]_vars

\* C23: calculateScore returns a value in [0, 100] (in tenths: 0..1000) for
\* every error rate in [0, 1] and every non-negative response time, 100.0 for
\* error rate 0 and response time 0, and 0.0 for error rate 1 and a response
\* time of at least 10000 ms.
C23_ScoreRange ==
    probe.fn = "score"
      => /\ probe.out \in 0..1000
         /\ (probe.e = 0 /\ probe.ms = 0) => probe.out = 1000
         /\ (probe.e = probe.d /\ probe.ms >= 10000) => probe.out = 0

\* C23 witness: the score of error rate 1 over a response time beyond 10 s
C23_Witness ==
    /\ probe.fn = "score"
    /\ probe.e = probe.d
    /\ probe.ms > 10000
    /\ probe.out = 0

\* C24: calculateConfidence(s, m) is non-decreasing in s for every fixed
\* m >= 1, stays within [0, 100] and is 0 when s = 0.
C24_ConfidenceMonotone ==
    probe.fn = "confidence"
      => /\ probe.out \in 0..100
         /\ probe.sampleSize = 0 => probe.out = 0
         /\ \A smaller \in 0..probe.sampleSize :
               CalculateConfidence(smaller, probe.minSize) <= probe.out

\* C24 witness: a sample one short of the minimum size, on the linear ramp
C24_Witness ==
    /\ probe.fn = "confidence"
    /\ probe.sampleSize = probe.minSize - 1
    /\ probe.sampleSize > 0
    /\ probe.out > 0 /\ probe.out < 50

\* C25: a row whose three windows hold no request at all has fused error
\* rate 0, fused latency 0 and the performance score of error rate 0 and
\* latency 0.
C25_NoTrafficFusion ==
    (/\ probe.fn = "fuse"
     /\ probe.short.requests + probe.medium.requests + probe.long.requests = 0)
      => /\ probe.out.requests = 0
         /\ probe.out.e = 0
         /\ probe.out.r = 0
         /\ probe.out.performanceScore = CalculateScore(0, 0, 1)

\* C25 witness: the fusion of three empty windows
C25_Witness ==
    /\ probe.fn = "fuse"
    /\ probe.short.requests + probe.medium.requests + probe.long.requests = 0
    /\ probe.out.performanceScore = 1000

\* the baseline the policies take for a row: the stored one, else the current values
BaseWeight(row) == OrElse(row.baseWeight, row.weight)
BasePriority(row) == OrElse(row.basePriority, row.priority)

\* the scenario of C21: circuit closed, weight 10 on baseline 10, score 90.0,
\* enough requests, maxWeightAdjustmentPercent 10
PromoteScenario ==
    /\ probe.fn = "bandit"
    /\ probe.circ = "closed"
    /\ probe.row.weight = 10 /\ BaseWeight(probe.row) = 10
    /\ probe.mab.metrics.performanceScore = 900
    /\ probe.mab.metrics.requests >= probe.config.minSampleSize
    /\ probe.config.maxWeightAdjustmentPercent = 10

\* C21 as stated: in the scenario the bandit policy suggests weight 11 and
\* priority basePriority - 1, with action promote.
C21_PromoteScenarioMinusOne ==
    PromoteScenario
      => /\ probe.mab.suggestedWeight = 11
         /\ probe.mab.suggestedPriority = BasePriority(probe.row) - 1
         /\ probe.decision.action = "promote"

\* C21: in the scenario the bandit policy suggests weight 11 and priority
\* basePriority - 1, held at 0 when the baseline priority is 0, and the
\* decision has action promote.
C21_PromoteScenario ==
    PromoteScenario
      => /\ probe.mab.suggestedWeight = 11
         /\ probe.mab.suggestedPriority = Max(0, BasePriority(probe.row) - 1)
         /\ probe.decision.action = "promote"
         /\ probe.decision.afterState.weight = 11

\* C21 witness: the scenario over a baseline priority of 1
C21_Witness ==
    /\ PromoteScenario
    /\ BasePriority(probe.row) = 1
    /\ probe.mab.suggestedPriority = 0
    /\ probe.decision.action = "promote"

\* a bandit call on a closed circuit with fewer fused requests than minSampleSize
ExploreScenario ==
    /\ probe.fn = "bandit"
    /\ probe.circ = "closed"
    /\ probe.mab.metrics.requests < probe.config.minSampleSize

\* C22 as stated: below the minimum sample size the bandit policy suggests
\* max(1, floor(baseWeight * 0.5)), leaves the priority as it is, and the
\* action is explore.
C22_ExploreKeepsPriority ==
    ExploreScenario
      => /\ probe.mab.suggestedWeight = Max(1, BaseWeight(probe.row) \div 2)
         /\ probe.mab.suggestedPriority = probe.row.priority
         /\ probe.decision.action = "explore"

\* C22: below the minimum sample size the bandit policy suggests
\* max(1, floor(baseWeight * 0.5)) and the baseline priority (the current
\* priority when no baseline is stored), whatever the score, and the action
\* is explore.
C22_ExploreScenario ==
    ExploreScenario
      => /\ probe.mab.suggestedWeight = Max(1, BaseWeight(probe.row) \div 2)
         /\ probe.mab.suggestedPriority = BasePriority(probe.row)
         /\ probe.decision.action = "explore"

\* C22 witness: three fused requests against a minimum of ten, on a row whose
\* priority has left its baseline
C22_Witness ==
    /\ ExploreScenario
    /\ probe.mab.metrics.requests = 3
    /\ probe.row.priority # BasePriority(probe.row)
    /\ probe.mab.suggestedPriority = BasePriority(probe.row)
    /\ probe.mab.suggestedWeight = 45

\* C28: with the circuit half-open the bandit policy suggests
\* max(1, floor(baseWeight * circuitRecoveryWeightPercent / 100)) and
\* basePriority + 1, whatever the score and the sample size.
C28_HalfOpenSuggestion ==
    (probe.fn = "bandit" /\ probe.circ = "half-open")
      => /\ probe.mab.suggestedWeight =
                Max(1, FloorPercentExact(BaseWeight(probe.row),
                                         probe.config.circuitRecoveryWeightPercent))
         /\ probe.mab.suggestedPriority = BasePriority(probe.row) + 1

\* C30: under the rule policy a provider whose confidence is below 50 gets
\* action maintain with afterState equal to beforeState, whatever its score
\* and circuit state, and a committed cycle does not write its row.
C30_LowConfidenceMaintained ==
    (probe.fn = "rule" /\ probe.decision.confidence < 50)
      => /\ probe.decision.action = "maintain"
         /\ probe.decision.afterState.weight = probe.decision.beforeState.weight
         /\ probe.decision.afterState.priority = probe.decision.beforeState.priority
         /\ ~probe.updated
         /\ probe.stored = probe.row

\* C30 witness: a low-confidence provider with its circuit open, never adjusted
C30_Witness ==
    /\ probe.fn = "rule"
    /\ probe.decision.confidence > 0 /\ probe.decision.confidence < 50
    /\ probe.circ = "open"
    /\ probe.row.baseWeight = Null
    /\ probe.decision.action = "maintain"
    /\ probe.stored = probe.row

\* the rule policy's recovery case: confident, circuit not open, score above
\* 80, and the row below its baseline weight or above its baseline priority
RecoverScenario ==
    /\ probe.fn = "rule"
    /\ probe.decision.confidence >= 50
    /\ probe.circ # "open"
    /\ probe.decision.beforeState.performanceScore > 800
    /\ \/ probe.row.weight < BaseWeight(probe.row)
       \/ probe.row.priority > BasePriority(probe.row)

\* C31: under the rule policy a provider with confidence >= 50, circuit not
\* open, score > 80 and weight below its baseline weight or priority above its
\* baseline priority is restored in one cycle to exactly (baseWeight,
\* basePriority) with action recover, and the stored baseline stays as it was.
C31_RecoverRestoresBaseline ==
    RecoverScenario
      => /\ probe.decision.action = "recover"
         /\ probe.updated
         /\ probe.stored.weight = BaseWeight(probe.row)
         /\ probe.stored.priority = BasePriority(probe.row)
         /\ probe.stored.baseWeight = probe.row.baseWeight
         /\ probe.stored.basePriority = probe.row.basePriority

\* C31 witness: a half-open provider below its baseline weight and above its
\* baseline priority is put back on both
C31_Witness ==
    /\ RecoverScenario
    /\ probe.circ = "half-open"
    /\ probe.row.weight = 5 /\ probe.row.baseWeight = 90
    /\ probe.row.priority = 5 /\ probe.row.basePriority = 1
    /\ probe.stored.weight = 90 /\ probe.stored.priority = 1

\* C32: every ScheduleDecision of a cycle, of either engine, records in
\* beforeState.circuitState the circuit state the provider had when the cycle
\* evaluated it (open, half-open or closed).
C32_BeforeStateCircuit ==
    probe.fn \in {"bandit", "rule"}
      => probe.decision.beforeState.circuitState = probe.circ

\* C36: for every cycle of either engine the summary counts partition the
\* decisions: promoted + demoted + maintained + recovered + circuitOpen equals
\* the number of decisions (totalProviders), and affectedProviders equals
\* promoted + demoted + recovered.
C36_SummaryPartitions ==
    probe.fn = "execute"
      => LET s == probe.summary
         IN  /\ s.promoted + s.demoted + s.maintained + s.recovered + s.circuitOpen
                  = Cardinality(DOMAIN probe.decisions)
             /\ probe.totalProviders = Cardinality(DOMAIN probe.decisions)
             /\ probe.affectedProviders = s.promoted + s.demoted + s.recovered

\* C36 witness: a bandit cycle that explores one provider and promotes the
\* other: two decisions, one maintained, one promoted, one affected
C36_Witness ==
    /\ probe.fn = "execute"
    /\ probe.engine = "realtime"
    /\ probe.ok
    /\ \E id \in DOMAIN probe.decisions : probe.decisions[id].action = "explore"
    /\ probe.summary.maintained = 1 /\ probe.summary.promoted = 1
    /\ probe.totalProviders = 2
    /\ probe.affectedProviders = 1

RecoverWeights == 1..100
RecoverBaselines == {1, 10, 100}
RecoverPercents == {1, 10, 25, 50}

\* one enabled provider with a stored baseline, any weight, priority on its
\* baseline; the other provider is disabled
InitRecover ==
    /\ InitCommon
    /\ \E w \in RecoverWeights, bw \in RecoverBaselines, percent \in RecoverPercents :
        /\ providers = [id \in ProviderIds |->
                           IF id = 1
                           THEN [Row(w, 1, TRUE) EXCEPT !.baseWeight = bw,
                                                        !.basePriority = 1]
                           ELSE Row(1, 0, FALSE)]
        /\ settings = [DefaultSettings EXCEPT !.maxWeightAdjustmentPercent = percent]

\* a cycle of the recurring scheduler, executeSchedule() lines 596-604, that
\* finds every circuit closed and every provider with the traffic of Fair
\* (score 72.0, 70 fused requests)
BandCycle ==
    /\ LET tele == [id \in ProviderIds |-> Fair]
           circ == [id \in ProviderIds |-> "closed"]
           result == RealtimeExecute(providers, tele, circ, MABConfig(settings),
                                     FALSE, NoFault)
       IN  providers' = result.store
    /\ UNCHANGED <<state, starts, timers, settings, lastOp, stopCtx, lastCycle, cycles,
                   auxVars>>

NextRecover == BandCycle

\* the scheduler keeps running cycles as long as a cycle changes something
SpecRecover == InitRecover /\ [][NextRecover]_vars /\ WF_vars(BandCycle)

\* C29: a closed-circuit provider with enough requests whose score stays in
\* [70, 85) is reset to its baseline by repeated committed bandit cycles:
\* after finitely many cycles its stored weight equals its baseWeight.
C29_BandResetsToBaseline == <>(providers[1].weight = providers[1].baseWeight)

\* ------------------------------------------------ cycles across a circuit trip

\* the weights and priorities a provider has before its circuit opens
ReopenWeights == 1..100
ReopenPriorities == {0, 1, 5}

\* the circuit state the cycle at time t finds: the circuit has just opened,
\* then is half-open, then closed again for good
CircuitAt(t) == IF t = 0 THEN "open" ELSE IF t = 1 THEN "half-open" ELSE "closed"

\* the traffic the cycle at time t finds: failures or nothing while open, a
\* few probes or steady traffic while half-open, then the traffic of Fair
\* (score 72.0, 70 fused requests)
TrafficAt(t) ==
    IF t = 0 THEN {Poor, Silent} ELSE IF t = 1 THEN {Sparse, Fair} ELSE {Fair}

\* one enabled provider, never adjusted or with its baseline on its current
\* values; probe keeps the weight and priority it has before the trip
InitReopen ==
    /\ state = InitialState
    /\ starts = [i \in StartIds |-> IdleStart]
    /\ timers = [t \in TimerIds |-> FreeTimer]
    /\ lastOp = "other"
    /\ stopCtx = "none"
    /\ lastCycle = NoCycle
    /\ cycles = 0
    /\ health = ClosedHealth
    /\ now = 0
    /\ \E w \in ReopenWeights, p \in ReopenPriorities, adjusted \in BOOLEAN,
          percent \in AdjustmentPercents :
        /\ providers = [id \in ProviderIds |->
                           IF id # 1 THEN Row(1, 0, FALSE)
                           ELSE IF adjusted
                           THEN [Row(w, p, TRUE) EXCEPT !.baseWeight = w,
                                                        !.basePriority = p]
                           ELSE Row(w, p, TRUE)]
        /\ probe = [fn |-> "beforeTrip", weight |-> w, priority |-> p]
        /\ settings = [DefaultSettings EXCEPT !.maxWeightAdjustmentPercent = percent]

\* a cycle of the recurring scheduler, executeSchedule() lines 596-604, one
\* per clock tick; cycles counts them modulo MaxCycles + 1
ReopenCycle ==
    /\ \E traffic \in TrafficAt(now) :
        LET tele == [id \in ProviderIds |-> traffic]
            circ == [id \in ProviderIds |-> CircuitAt(now)]
            result == RealtimeExecute(providers, tele, circ, MABConfig(settings),
                                      FALSE, NoFault)
        IN  providers' = result.store
    /\ now' = Min(now + 1, MaxTime)
    /\ cycles' = (cycles + 1) % (MaxCycles + 1)
    /\ UNCHANGED <<state, starts, timers, settings, lastOp, stopCtx, lastCycle, probe,
                   health>>

NextReopen == ReopenCycle

\* the timer of scheduleNext() fires and a cycle is counted, the count wrapping
\* at MaxCycles
TimerFires == cycles' = (cycles + 1) % (MaxCycles + 1)

\* the running scheduler re-arms its timer after every cycle (scheduleNext,
\* lines 521-539), so cycles are run again and again
SpecReopen == InitReopen /\ [][NextReopen]_vars /\ WF_cycles(TimerFires)

\* C35: under the realtime engine, after a provider's circuit goes open, then
\* half-open, then closed across committed cycles, and its fused score then
\* stays in [70, 85) with enough samples, its stored weight and priority
\* eventually return to the values they had before the circuit opened.
C35_ReturnsAfterTrip ==
    <>(/\ now >= 2
       /\ providers[1].weight = probe.weight
       /\ providers[1].priority = probe.priority)

\* ------------------------------------------------ CircuitBreaker

\* the defaults of a provider's breaker: failureThreshold, halfOpenSuccessThreshold,
\* and openDuration (1,800,000 ms) in clock ticks of 600,000 ms
FailureThreshold == 5
HalfOpenSuccessThreshold == 2
OpenDuration == 3

\* a success that leaves the failure count of a closed circuit as it is
RecordSuccessKeeps(h) ==
    IF h.circuitState = "half-open" /\ h.halfOpenSuccessCount + 1 >= HalfOpenSuccessThreshold
    THEN [ClosedHealth EXCEPT !.failureCount = h.failureCount]
    ELSE IF h.circuitState = "half-open"
    THEN [h EXCEPT !.halfOpenSuccessCount = @ + 1]
    ELSE h

\* a success reported for a call: closed, the failure count returns to 0;
\* half-open, the circuit closes (counters zeroed) after
\* halfOpenSuccessThreshold consecutive successes
RecordSuccess(h) ==
    IF h.circuitState = "closed"
    THEN [h EXCEPT !.failureCount = 0]
    ELSE IF h.circuitState = "half-open"
    THEN IF h.halfOpenSuccessCount + 1 >= HalfOpenSuccessThreshold
         THEN ClosedHealth
         ELSE [h EXCEPT !.halfOpenSuccessCount = @ + 1]
    ELSE h

\* the trip: open until t + openDuration
Trip(h, t) ==
    [h EXCEPT !.circuitState = "open", !.failureCount = Max(@, FailureThreshold),
              !.lastFailureTime = t, !.circuitOpenUntil = t + OpenDuration,
              !.halfOpenSuccessCount = 0]

\* a failure reported for a call at time t: closed, the count goes up and the
\* circuit trips when it reaches failureThreshold; half-open, any failure
\* trips it again
RecordFailure(h, t) ==
    IF h.circuitState = "closed"
    THEN IF h.failureCount + 1 >= FailureThreshold
         THEN Trip([h EXCEPT !.failureCount = @ + 1], t)
         ELSE [h EXCEPT !.failureCount = @ + 1, !.lastFailureTime = t]
    ELSE IF h.circuitState = "half-open"
    THEN Trip(h, t)
    ELSE h

\* the health query at time t: an open circuit whose openUntil has passed is
\* half-open from then on
GetHealth(h, t) ==
    IF h.circuitState = "open" /\ t >= h.circuitOpenUntil
    THEN [h EXCEPT !.circuitState = "half-open", !.halfOpenSuccessCount = 0]
    ELSE h

\* a reset that zeroes the counters and leaves the state to the timers
ResetCounters(h) == [h EXCEPT !.failureCount = 0, !.halfOpenSuccessCount = 0]

\* resetCircuit(providerId): closed, counters zeroed, timers cleared
ResetCircuit(h) == ClosedHealth

\* history kept in probe by the breaker's operations: the last operation, the
\* number of consecutive failed calls up to it (counted up to the threshold),
\* and what a reset found
Streak == IF probe = NoProbe THEN 0 ELSE probe.streak
Breaker(fn, streak) == [fn |-> fn, streak |-> streak, before |-> "none", pending |-> FALSE]

circuitFrame == <<state, starts, timers, settings, lastOp, stopCtx, engineVars>>

\* the routing layer reports a failed call (no call is routed while open)
CallFails ==
    /\ GetHealth(health, now).circuitState # "open"
    /\ health' = RecordFailure(GetHealth(health, now), now)
    /\ probe' = Breaker("recordFailure", Min(Streak + 1, FailureThreshold))
    /\ UNCHANGED <<circuitFrame, now>>

\* the routing layer reports a successful call
CallSucceeds ==
    /\ GetHealth(health, now).circuitState # "open"
    /\ health' = RecordSuccess(GetHealth(health, now))
    /\ probe' = Breaker("recordSuccess", 0)
    /\ UNCHANGED <<circuitFrame, now>>

\* getProvidersHealthStatus(), and the health query of every cycle
HealthQuery ==
    /\ health' = GetHealth(health, now)
    /\ probe' = Breaker("getHealth", Streak)
    /\ UNCHANGED <<circuitFrame, now>>

\* a reset action that zeroes the counters without closing the circuit
ResetProviderCircuitCounters ==
    /\ health' = ResetCounters(health)
    /\ probe' = [Breaker("resetCircuit", Streak) EXCEPT
                     !.before = health.circuitState,
                     !.pending = (health.circuitOpenUntil # Null
                                  /\ now < health.circuitOpenUntil)]
    /\ UNCHANGED <<circuitFrame, now>>

\* resetProviderCircuit(providerId): admins only
ResetProviderCircuit ==
    /\ \E admin \in BOOLEAN :
        IF admin
        THEN /\ health' = ResetCircuit(health)
             /\ probe' = [Breaker("resetCircuit", Streak) EXCEPT
                              !.before = health.circuitState,
                              !.pending = (health.circuitOpenUntil # Null
                                           /\ now < health.circuitOpenUntil)]
        ELSE /\ probe' = Breaker("resetDenied", Streak)
             /\ UNCHANGED health
    /\ UNCHANGED <<circuitFrame, now>>

\* time passes
Tick ==
    /\ now < MaxTime
    /\ now' = now + 1
    /\ probe' = Breaker("tick", Streak)
    /\ UNCHANGED <<circuitFrame, health>>

InitCircuit ==
    /\ InitCommon
    /\ settings = DefaultSettings
    /\ providers = [id \in ProviderIds |-> Row(10, 1, TRUE)]

NextCircuit ==
    \/ CallFails
    \/ CallSucceeds
    \/ HealthQuery
    \/ ResetProviderCircuit
    \/ Tick

SpecCircuit == InitCircuit /\ [][NextCircuit]_vars

\* C26: a closed circuit opens when, and only when, its consecutive failure
\* count reaches failureThreshold: it opens on the failure that brings the
\* count to the threshold, and never after a run of fewer than
\* failureThreshold consecutive failed calls.
C26_OpensAtThreshold ==
    [][/\ (health.circuitState = "closed" /\ health'.circuitState = "open")
            => /\ probe'.fn = "recordFailure"
               /\ probe'.streak >= FailureThreshold
               /\ health.failureCount + 1 = FailureThreshold
       /\ (/\ health.circuitState = "closed" /\ probe'.fn = "recordFailure"
           /\ health' # health
           /\ health.failureCount + 1 >= FailureThreshold)
            => health'.circuitState = "open"]_vars

\* C26 witness: the circuit has just tripped on its fifth consecutive failure
C26_Witness ==
    /\ probe.fn = "recordFailure"
    /\ probe.streak = FailureThreshold
    /\ health.circuitState = "open"
    /\ health.failureCount = FailureThreshold
    /\ health.circuitOpenUntil = now + OpenDuration

BanditDecision(id, tele, circ) ==
    MABDecision(MultiWindowRow(providers[id], tele, circ), MABConfig(settings))
RuleDecision(id, tele, circ) ==
    ApplyStrategy(providers[id], TodayScore(tele.today), TodayConfidence(tele.today), circ)

\* C5: a cycle run with dryRun = true changes no provider row (weight, priority,
\* baseWeight, basePriority), for both engines.
C5_DryRunWritesNothing == [][lastCycle'.dryRun => providers' = providers]_vars

\* C5 witness: a dry-run bandit cycle whose decisions would have changed rows
C5_Witness ==
    /\ lastCycle.engine = "realtime"
    /\ lastCycle.dryRun
    /\ lastCycle.ok
    /\ lastCycle.affected > 0

\* C6: the first committed change of a provider seeds baseWeight/basePriority
\* with the values before the change, and no cycle writes a different value
\* over a baseline that is already set.
C6_BaselineFirstWriteWins ==
    [][\A id \in ProviderIds :
          /\ (providers[id].baseWeight = Null /\ providers'[id] # providers[id])
                => providers'[id].baseWeight = providers[id].weight
          /\ (providers[id].basePriority = Null /\ providers'[id] # providers[id])
                => providers'[id].basePriority = providers[id].priority
          /\ providers[id].baseWeight # Null
                => providers'[id].baseWeight = providers[id].baseWeight
          /\ providers[id].basePriority # Null
                => providers'[id].basePriority = providers[id].basePriority]_vars

\* C7: after any sequence of committed cycles of either engine every stored
\* weight is in 1..100 and every stored priority is at least 0.
C7_StoredRange ==
    \A id \in ProviderIds :
        providers[id].weight \in 1..100 /\ providers[id].priority >= 0

\* C8: for a provider with a closed circuit and at least minSampleSize fused
\* requests, at every weight the earlier cycles can have stored, the bandit
\* suggestion differs from the current weight by at most
\* floor(currentWeight * maxWeightAdjustmentPercent / 100).
C8_BanditRateLimit ==
    \A id \in EnabledIds(providers), tele \in Profiles :
        LET mab == BanditDecision(id, tele, "closed")
        IN  mab.metrics.requests >= settings.minSampleSize
            => 100 * Abs(mab.suggestedWeight - providers[id].weight)
                 <= providers[id].weight * settings.maxWeightAdjustmentPercent

C10_OpenCountedAsPenalty ==
    \A found \in [ProviderIds -> Conditions] :
        LET tele == [id \in ProviderIds |-> found[id].tele]
            circ == [id \in ProviderIds |-> found[id].circ]
            decisions == RealtimeDecisions(providers, tele, circ, MABConfig(settings))
            open == {id \in DOMAIN decisions : circ[id] = "open"}
        IN  /\ \A id \in open : decisions[id].action = "circuit_penalty"
            /\ CalculateSummary(decisions).circuitOpen = Cardinality(open)

\* a decision that changes weight or priority
Changes(decision) ==
    \/ decision.afterState.weight # decision.beforeState.weight
    \/ decision.afterState.priority # decision.beforeState.priority

\* a committed cycle whose update of provider f threw went on: it reports ok,
\* f keeps its weight and priority, every other changing decision is stored
Tolerated(result, decisions, f) ==
    /\ result.ok
    /\ result.store[f].weight = providers[f].weight
    /\ result.store[f].priority = providers[f].priority
    /\ \A id \in DOMAIN decisions \ {f} :
          Changes(decisions[id])
            => /\ result.store[id].weight = decisions[id].afterState.weight
               /\ result.store[id].priority = decisions[id].afterState.priority

\* C11: in a committed cycle of either engine a failing update of one provider
\* does not abort the cycle: the other changing providers are still updated,
\* the failing one keeps its weight and priority, and the cycle reports ok.
C11_UpdateFailureTolerated ==
    \A found \in [ProviderIds -> Conditions], f \in EnabledIds(providers) :
        LET tele == [id \in ProviderIds |-> found[id].tele]
            circ == [id \in ProviderIds |-> found[id].circ]
            fault == [NoFault EXCEPT !.update = {f}]
            config == MABConfig(settings)
        IN  /\ Tolerated(RealtimeExecute(providers, tele, circ, config, FALSE, fault),
                         RealtimeDecisions(providers, tele, circ, config), f)
            /\ Tolerated(AutoExecute(providers, tele, circ, FALSE, fault),
                         AutoDecisions(providers, tele, circ), f)

\* C12: a cycle of either engine that has applied its provider updates and
\* whose schedule-log write then fails still returns ok:true.
C12_LogFailureSwallowed ==
    [][(cycles' # cycles /\ lastCycle'.fault = "log" /\ providers' # providers)
          => lastCycle'.ok]_vars

\* C13: a cycle of either engine that returns ok:false leaves every provider
\* row (weight, priority, baseline) as it was before the cycle.
C13_FailedCycleWritesNothing ==
    [][(cycles' # cycles /\ ~lastCycle'.ok) => providers' = providers]_vars

\* C14: every cycle that returns ok:true appends exactly one ScheduleLog row
\* when the log store accepts the write, dry run or not, whatever the number
\* of enabled providers (zero included).
C14_OneLogRowPerCycle ==
    [][(cycles' # cycles /\ lastCycle'.ok /\ lastCycle'.fault # "log")
          => lastCycle'.logged = 1]_vars

====
